---- MODULE Spec2Model ----
(***************************************************************************)
(* The Multi-Stream File (MSF) reader of the pdb crate: src/msf/mod.rs,    *)
(* src/msf/big.rs and src/msf/small.rs.                                    *)
(*                                                                         *)
(* A disk image is built byte for byte from a description of a synthetic   *)
(* MSF; the reader sees it only through the transport (Source::view).      *)
(* open_msf and get are one action each.                                   *)
(*                                                                         *)
(* Numbers read from disk are 32 bits wide and usize is 64 bits wide, both *)
(* wider than the integers of the model checker.  Such a number is kept as *)
(* its little-endian bytes (a "wide" number, WBytes long) and the          *)
(* arithmetic the code does on it is done on the bytes.                    *)
(***************************************************************************)
EXTENDS Integers, Sequences, FiniteSets, TLC

VARIABLES synth, disk, pc, msf, last, asked, memo, probe

vars == <<synth, disk, pc, msf, last, asked, memo, probe>>

(***************************************************************************)
(* Wide numbers                                                            *)
(***************************************************************************)

\* usize on a 64-bit target: 8 bytes.  The readers are run at this width.
WBytes == 8

\* u32 (PageNumber, every 32-bit header and directory field): 4 bytes.
U32Bytes == 4

RECURSIVE LEBytes(_, _)
\* The k low bytes of the small number n, least significant first.
LEBytes(n, k) == IF k = 0 THEN <<>> ELSE <<n % 256>> \o LEBytes(n \div 256, k - 1)

\* The wide number of a small number (below 2^31: four bytes and zeros).
WOf(n) ==
    <<n % 256, (n \div 256) % 256, (n \div 65536) % 256, n \div 16777216, 0, 0, 0, 0>>

\* The wide number of k bytes read from disk (zero extension: `as usize`).
WExt(bs) == [i \in 1..WBytes |-> IF i <= Len(bs) THEN bs[i] ELSE 0]

\* Whether a wide number is below 2^31 and so has a small value.
WFits(w) == /\ \A i \in 5..WBytes : w[i] = 0
            /\ w[4] < 128

\* The small value of a wide number that fits.
WVal(w) == w[1] + 256 * w[2] + 65536 * w[3] + 16777216 * w[4]

RECURSIVE WCmpFrom(_, _, _)
\* -1, 0, 1 as a < b, a = b, a > b, comparing from byte i downwards.
WCmpFrom(a, b, i) ==
    IF i = 0 THEN 0
    ELSE IF a[i] < b[i] THEN -1
    ELSE IF a[i] > b[i] THEN 1
    ELSE WCmpFrom(a, b, i - 1)

WLt(a, b) == WCmpFrom(a, b, WBytes) < 0
WLe(a, b) == WCmpFrom(a, b, WBytes) <= 0

RECURSIVE WAddFrom(_, _, _, _)
\* Bytes i.. of a + b with carry c in, followed by the carry out.
WAddFrom(a, b, i, c) ==
    IF i > WBytes THEN <<c>>
    ELSE LET s == a[i] + b[i] + c
         IN <<s % 256>> \o WAddFrom(a, b, i + 1, s \div 256)

\* a + b in usize: the sum modulo 2^64 and whether it overflowed.
WAdd(a, b) ==
    LET r == WAddFrom(a, b, 1, 0)
    IN [val |-> SubSeq(r, 1, WBytes), overflow |-> r[WBytes + 1] # 0]

RECURSIVE WSubFrom(_, _, _, _)
\* Bytes i.. of a - b with borrow c in (a >= b).
WSubFrom(a, b, i, c) ==
    IF i > WBytes THEN <<>>
    ELSE LET s == a[i] - b[i] - c
         IN IF s < 0 THEN <<s + 256>> \o WSubFrom(a, b, i + 1, 1)
            ELSE <<s>> \o WSubFrom(a, b, i + 1, 0)

\* a - b for a >= b.
WSub(a, b) == WSubFrom(a, b, 1, 0)

RECURSIVE WMulFrom(_, _, _, _)
\* Bytes i.. of a * m with carry c in (m below 2^23), followed by the carry out.
WMulFrom(a, m, i, c) ==
    IF i > WBytes THEN <<c>>
    ELSE LET s == a[i] * m + c
         IN <<s % 256>> \o WMulFrom(a, m, i + 1, s \div 256)

\* a * m in usize for a small m: the product modulo 2^64 and whether it overflowed.
WMul(a, m) ==
    LET r == WMulFrom(a, m, 1, 0)
    IN [val |-> SubSeq(r, 1, WBytes), overflow |-> r[WBytes + 1] # 0]

RECURSIVE WDivFrom(_, _, _, _)
\* Long division of a by the small m (0 < m <= 2^23) from byte i downwards with
\* remainder r in: the quotient's bytes, most significant first.
WDivFrom(a, m, i, r) ==
    IF i = 0 THEN <<>>
    ELSE LET n == r * 256 + a[i]
         IN <<n \div m>> \o WDivFrom(a, m, i - 1, n % m)

\* a / m (integer division) for a small m > 0.
WDiv(a, m) ==
    LET q == WDivFrom(a, m, WBytes, 0)
    IN [i \in 1..WBytes |-> q[WBytes + 1 - i]]

\* u32::max_value(): the size that marks a stream as absent.
U32Max == [i \in 1..WBytes |-> IF i <= U32Bytes THEN 255 ELSE 0]

(***************************************************************************)
(* Errors and results                                                      *)
(***************************************************************************)

\* An Error value: its kind, its u32 argument (zero when it has none) and, for
\* IoError, the kind of the std::io::Error it wraps.
Err(kind, arg) == [kind |-> kind, arg |-> arg, io |-> ""]
IoError(io) == [kind |-> "IoError", arg |-> WOf(0), io |-> io]
NoError == [kind |-> "", arg |-> WOf(0), io |-> ""]

(***************************************************************************)
(* Header (mod.rs)                                                         *)
(***************************************************************************)

\* bytes + (page_size - 1), in usize.
pages_needed_sum(h, bytes) == WAdd(bytes, WOf(h.page_size - 1))

\* Header::pages_needed_to_store where usize is usize_bytes wide: whether the
\* sum overflows (a panic where overflow is checked), and the quotient of the
\* wrapped sum.
pages_needed_to_store_on(usize_bytes, h, bytes) ==
    [overflow |-> \E i \in (usize_bytes + 1)..WBytes : pages_needed_sum(h, bytes).val[i] # 0,
     val |-> WDiv(WExt(SubSeq(pages_needed_sum(h, bytes).val, 1, usize_bytes)), h.page_size)]

\* Header::pages_needed_to_store: (bytes + (page_size - 1)) / page_size.
pages_needed_to_store(h, bytes) == WDiv(pages_needed_sum(h, bytes).val, h.page_size)

\* A slip in the lower bound: page 0 accepted.
validate_page_number_zero_ok(h, page_number) ==
    IF WLt(h.maximum_valid_page_number, page_number)
    THEN [ok |-> FALSE, err |-> Err("PageReferenceOutOfRange", page_number), val |-> page_number]
    ELSE [ok |-> TRUE, err |-> NoError, val |-> page_number]

\* A slip in the upper bound: >= for >.
validate_page_number_ge(h, page_number) ==
    IF page_number = WOf(0) \/ WLe(h.maximum_valid_page_number, page_number)
    THEN [ok |-> FALSE, err |-> Err("PageReferenceOutOfRange", page_number), val |-> page_number]
    ELSE [ok |-> TRUE, err |-> NoError, val |-> page_number]

\* Header::validate_page_number.
validate_page_number(h, page_number) ==
    IF page_number = WOf(0) \/ WLt(h.maximum_valid_page_number, page_number)
    THEN [ok |-> FALSE, err |-> Err("PageReferenceOutOfRange", page_number), val |-> page_number]
    ELSE [ok |-> TRUE, err |-> NoError, val |-> page_number]

(***************************************************************************)
(* PageList (page_list.rs), as the specification describes it in sections  *)
(* 3 and 4.2                                                               *)
(***************************************************************************)

\* PageList::new: no pages, logical length 0.
PageList_new(page_size) == [page_size |-> page_size, pages |-> <<>>, len |-> 0]

\* PageList::push: append; the logical length becomes pages.len() * page_size.
PageList_push(pl, page) ==
    [pl EXCEPT !.pages = Append(pl.pages, page),
               !.len = (Len(pl.pages) + 1) * pl.page_size]

\* PageList::truncate: logical length min(current, bytes); the pages wholly past
\* it are dropped (the invariant len > (pages.len() - 1) * page_size).
PageList_truncate(pl, bytes) ==
    IF WLe(WOf(pl.len), bytes) THEN pl
    ELSE LET n == WVal(bytes)
             keep == (n + pl.page_size - 1) \div pl.page_size
         IN [pl EXCEPT !.pages = SubSeq(pl.pages, 1, keep), !.len = n]

\* PageList::len.
PageList_len(pl) == pl.len

\* PageList::source_slices: one (offset, size) per page, offset page * page_size,
\* the last one cut so that the sizes add up to the logical length.
PageList_source_slices(pl) ==
    [i \in 1..Len(pl.pages) |->
        [offset |-> WMul(pl.pages[i], pl.page_size).val,
         size |-> IF i < Len(pl.pages) THEN pl.page_size
                  ELSE pl.len - (Len(pl.pages) - 1) * pl.page_size]]

(***************************************************************************)
(* ParseBuffer (common.rs), as the calls made on it and the                *)
(* specification's ParseError describe it                                  *)
(***************************************************************************)

ParseBuffer_from(bytes) == [data |-> bytes, pos |-> 0]

ParseBuffer_len(buf) == Len(buf.data) - buf.pos

ParseBuffer_is_empty(buf) == ParseBuffer_len(buf) = 0

\* The next k bytes as a little-endian number, or ParseError when fewer are left.
ParseBuffer_parse_le(buf, k) ==
    IF ParseBuffer_len(buf) < k
    THEN [ok |-> FALSE, err |-> Err("ParseError", WOf(0)), val |-> WOf(0), buf |-> buf]
    ELSE [ok |-> TRUE, err |-> NoError,
          val |-> [i \in 1..WBytes |-> IF i <= k THEN buf.data[buf.pos + i] ELSE 0],
          buf |-> [buf EXCEPT !.pos = buf.pos + k]]

parse_u32(buf) == ParseBuffer_parse_le(buf, 4)
parse_u16(buf) == ParseBuffer_parse_le(buf, 2)

\* ParseBuffer::take(n): skip n bytes (n a usize), or ParseError.
ParseBuffer_take(buf, n) ==
    IF ~WFits(n) \/ ParseBuffer_len(buf) < WVal(n)
    THEN [ok |-> FALSE, err |-> Err("ParseError", WOf(0)), buf |-> buf]
    ELSE [ok |-> TRUE, err |-> NoError, buf |-> [buf EXCEPT !.pos = buf.pos + WVal(n)]]

(***************************************************************************)
(* The transport (source.rs), as the specification describes it in         *)
(* sections 4.3 and 6: a file that is read exactly                         *)
(***************************************************************************)

\* Byte k (from 0) of the content of stream i of a synthetic file.
Content(i, k) == (k + 40 * i + 1) % 251

\* A disk is [len, page_size, pages]: len bytes in pages of page_size bytes; a
\* page holds given bytes (zero filled), part of a stream's content, or is free.
BytesPage(bytes) == [kind |-> "bytes", bytes |-> bytes, stream |-> 0, part |-> 0]
DataPage(i, j) == [kind |-> "data", bytes |-> <<>>, stream |-> i, part |-> j]
FreePage == [kind |-> "free", bytes |-> <<>>, stream |-> 0, part |-> 0]

\* The byte at offset o (from 0) of a page.
PageByte(pg, o, page_size) ==
    CASE pg.kind = "bytes" -> IF o < Len(pg.bytes) THEN pg.bytes[o + 1] ELSE 0
      [] pg.kind = "data" -> Content(pg.stream, pg.part * page_size + o)
      [] OTHER -> 238

\* The byte at offset off (from 0) of the disk.
DiskByte(dk, off) == PageByte(dk.pages[off \div dk.page_size], off % dk.page_size, dk.page_size)

\* The size bytes of a page from offset o.
ReadInPage(pg, o, size, page_size) == [k \in 1..size |-> PageByte(pg, o + k - 1, page_size)]

\* The size bytes of the disk from offset off.
ReadSlice(dk, off, size) ==
    IF size = 0 THEN <<>>
    ELSE IF off \div dk.page_size = (off + size - 1) \div dk.page_size
    THEN ReadInPage(dk.pages[off \div dk.page_size], off % dk.page_size, size, dk.page_size)
    ELSE [k \in 1..size |-> DiskByte(dk, off + k - 1)]

\* Whether the file holds all of a slice (read_exact fails otherwise).
SliceInFile(dk, s) ==
    \/ s.size = 0
    \/ /\ WFits(s.offset)
       /\ WVal(s.offset) <= dk.len
       /\ s.size <= dk.len - WVal(s.offset)

RECURSIVE ReadSlices(_, _, _)
\* The bytes of slices i.. one after the other.
ReadSlices(dk, slices, i) ==
    IF i > Len(slices) THEN <<>>
    ELSE ReadSlice(dk, WVal(slices[i].offset), slices[i].size) \o ReadSlices(dk, slices, i + 1)

\* Source::view: the bytes of the slices one after the other; an I/O error when
\* the transport fails (fault) or the file ends before a slice does.
Source_view(dk, slices, fault) ==
    IF fault # "none"
    THEN [ok |-> FALSE, err |-> IoError(fault), bytes |-> <<>>]
    ELSE IF \E i \in 1..Len(slices) : ~SliceInFile(dk, slices[i])
    THEN [ok |-> FALSE, err |-> IoError("UnexpectedEof"), bytes |-> <<>>]
    ELSE [ok |-> TRUE, err |-> NoError, bytes |-> ReadSlices(dk, slices, 1)]

\* The length check of view (mod.rs): a view of the wrong length is a defect.
view_checked(v, page_list) ==
    IF v.ok /\ Len(v.bytes) # PageList_len(page_list)
    THEN [ok |-> FALSE, err |-> Err("AssertionFailed", WOf(0)), bytes |-> <<>>]
    ELSE v

\* view (mod.rs): the source's view of the page list's slices; the source's
\* error is returned as it is.
view(dk, page_list, fault) ==
    view_checked(Source_view(dk, PageList_source_slices(page_list), fault), page_list)

\* A transport request as the histories record it: what it was for, its slices
\* and whether the transport served it.
Request(what, page_list, v) ==
    [what |-> what, slices |-> PageList_source_slices(page_list), ok |-> v.ok]

(***************************************************************************)
(* StreamTable (mod.rs) and the parts the two readers share                *)
(***************************************************************************)

NoPageList == [page_size |-> 0, pages |-> <<>>, len |-> 0]

\* StreamTable::HeaderOnly { size_in_bytes, stream_table_location_location }.
HeaderOnly(size_in_bytes, location_location) ==
    [tag |-> "HeaderOnly", size_in_bytes |-> size_in_bytes,
     page_list |-> location_location, stream_table_view |-> <<>>]

\* StreamTable::TableFound { stream_table_location }.
TableFound(location) ==
    [tag |-> "TableFound", size_in_bytes |-> WOf(0),
     page_list |-> location, stream_table_view |-> <<>>]

\* StreamTable::Available { stream_table_view }.
Available(stream_table_view) ==
    [tag |-> "Available", size_in_bytes |-> WOf(0),
     page_list |-> NoPageList, stream_table_view |-> stream_table_view]

NoStreamTable ==
    [tag |-> "None", size_in_bytes |-> WOf(0),
     page_list |-> NoPageList, stream_table_view |-> <<>>]

NoHeader == [page_size |-> 0, maximum_valid_page_number |-> WOf(0)]

NoMsf == [variant |-> "none", header |-> NoHeader, stream_table |-> NoStreamTable]

\* The iterations that `for _ in 0..pages` can make on buf reading k bytes each:
\* the one that finds the buffer exhausted is the last.
LoopBound(pages, buf, k) ==
    IF WFits(pages) /\ WVal(pages) <= ParseBuffer_len(buf) \div k
    THEN WVal(pages)
    ELSE (ParseBuffer_len(buf) \div k) + 1

PageNumbers(ok, err, page_list, buf) ==
    [ok |-> ok, err |-> err, page_list |-> page_list, buf |-> buf]

RECURSIVE ReadPageNumbers(_, _, _, _, _)

\* page_list.push(p?) for the validation p of a page number, and on with the
\* loop.
PushPageNumber(hdr, p, buf, k, todo, page_list) ==
    IF ~p.ok THEN PageNumbers(FALSE, p.err, page_list, buf)
    ELSE ReadPageNumbers(hdr, buf, k, todo - 1, PageList_push(page_list, p.val))

\* hdr.validate_page_number(n?) for the parse n of a page number.
ValidatePageNumber(hdr, n, buf, k, todo, page_list) ==
    IF ~n.ok THEN PageNumbers(FALSE, n.err, page_list, buf)
    ELSE PushPageNumber(hdr, validate_page_number(hdr, n.val), n.buf, k, todo, page_list)

\* for _ in 0..todo { let n = buf.parse()?; page_list.push(hdr.validate_page_number(n)?) }
\* on k-byte page numbers.
ReadPageNumbers(hdr, buf, k, todo, page_list) ==
    IF todo = 0 THEN PageNumbers(TRUE, NoError, page_list, buf)
    ELSE ValidatePageNumber(hdr, ParseBuffer_parse_le(buf, k), buf, k, todo, page_list)

\* page_list.truncate(size) at the end of read_page_list.
TruncatePageNumbers(r, size) ==
    IF r.ok THEN [r EXCEPT !.page_list = PageList_truncate(r.page_list, size)] ELSE r

\* read_page_list of either reader on k-byte page numbers: the page numbers of
\* pages_needed_to_store(size) pages, each validated, truncated to size.
read_page_list(hdr, size, buf, k) ==
    TruncatePageNumbers(
        ReadPageNumbers(hdr, buf, k, LoopBound(pages_needed_to_store(hdr, size), buf, k),
                        PageList_new(hdr.page_size)),
        size)

RECURSIVE PopCount(_)
\* The one bits of a byte.
PopCount(b) == IF b = 0 THEN 0 ELSE (b % 2) + PopCount(b \div 2)

\* u32::is_power_of_two: exactly one bit set.
is_power_of_two(w) == PopCount(w[1]) + PopCount(w[2]) + PopCount(w[3]) + PopCount(w[4]) = 1

\* The least and the greatest page size a header may state (0x100, 128 * 0x10000).
MinPageSize == 256
MaxPageSize == 8388608

\* A slip in the page size check: the power of two is not asked for.
page_size_ok_any_in_range(page_size) ==
    ~(WLt(page_size, WOf(MinPageSize)) \/ WLt(WOf(MaxPageSize), page_size))

\* The page size check of BigMSF::new and SmallMSF::new (the negation of the
\* condition that returns InvalidPageSize).
page_size_ok(page_size) ==
    ~(\/ ~is_power_of_two(page_size)
      \/ WLt(page_size, WOf(MinPageSize))
      \/ WLt(WOf(MaxPageSize), page_size))

BigMagic ==
    <<77, 105, 99, 114, 111, 115, 111, 102, 116, 32, 67, 47, 67, 43, 43, 32,
      77, 83, 70, 32, 55, 46, 48, 48, 13, 10, 26, 68, 83, 0, 0, 0>>

SmallMagic ==
    <<77, 105, 99, 114, 111, 115, 111, 102, 116, 32, 67, 47, 67, 43, 43, 32,
      112, 114, 111, 103, 114, 97, 109, 32, 100, 97, 116, 97, 98, 97, 115, 101,
      32, 50, 46, 48, 48, 13, 10, 26, 74, 71, 0, 0>>

\* header_matches (mod.rs).
header_matches(actual, expected) ==
    /\ Len(actual) >= Len(expected)
    /\ \A i \in 1..Len(expected) : actual[i] = expected[i]

\* The little-endian field of k bytes at offset off (from 0) of a header view.
Field(bytes, off, k) == [i \in 1..WBytes |-> IF i <= k THEN bytes[off + i] ELSE 0]

\* The result of new of either reader.
Made(ok, err, m) == [ok |-> ok, err |-> err, msf |-> m]

(***************************************************************************)
(* BigMSF (big.rs)                                                         *)
(***************************************************************************)

\* The end of BigMSF::new: the reader, HeaderOnly, when the inline page list
\* was read.
BigMSF_new_listed(header_object, directory_size, list) ==
    IF ~list.ok THEN Made(FALSE, list.err, NoMsf)
    ELSE Made(TRUE, NoError,
              [variant |-> "big", header |-> header_object,
               stream_table |-> HeaderOnly(directory_size, list.page_list)])

\* BigMSF::new from the header object on: the inline list of the pages that
\* hold the directory's page list, four bytes for each page of the directory.
BigMSF_new_sized(header_object, directory_size, buf) ==
    BigMSF_new_listed(header_object, directory_size,
        read_page_list(header_object,
            WMul(pages_needed_to_store(header_object, directory_size), 4).val, buf, 4))

\* BigMSF::new from the magic check on, with the fields of the RawHeader.
BigMSF_new_parsed(header_view, page_size, pages_used, directory_size) ==
    IF SubSeq(header_view, 1, Len(BigMagic)) # BigMagic
    THEN Made(FALSE, Err("UnrecognizedFileFormat", WOf(0)), NoMsf)
    ELSE IF ~page_size_ok(page_size)
    THEN Made(FALSE, Err("InvalidPageSize", page_size), NoMsf)
    ELSE BigMSF_new_sized(
             [page_size |-> WVal(page_size), maximum_valid_page_number |-> pages_used],
             directory_size,
             [data |-> header_view, pos |-> Len(BigMagic) + 20])

\* BigMSF::new: parse the RawHeader (32 bytes of magic, five u32), check the
\* magic, then the page size, then read the inline page list: HeaderOnly.
BigMSF_new(header_view) ==
    IF Len(header_view) < Len(BigMagic) + 20
    THEN Made(FALSE, Err("ParseError", WOf(0)), NoMsf)
    ELSE BigMSF_new_parsed(header_view,
             Field(header_view, Len(BigMagic), 4),
             Field(header_view, Len(BigMagic) + 8, 4),
             Field(header_view, Len(BigMagic) + 12, 4))

\* The result of a step of make_stream_table_available.
Step(ok, err, stream_table, reqs) ==
    [ok |-> ok, err |-> err, stream_table |-> stream_table, reqs |-> reqs]

\* A slip at the end of find_stream_table: the page numbers read before a bad
\* one are kept as the table's location.
BigMSF_find_listed_keeps_partial(m, reqs, r) ==
    Step(r.ok, r.err,
         TableFound(PageList_truncate(r.page_list, m.stream_table.size_in_bytes)), reqs)

\* The end of BigMSF::find_stream_table: the table is replaced only when every
\* page number read from the view is good.
BigMSF_find_listed(m, reqs, r) ==
    IF ~r.ok THEN Step(FALSE, r.err, m.stream_table, reqs)
    ELSE Step(TRUE, NoError,
              TableFound(PageList_truncate(r.page_list, m.stream_table.size_in_bytes)), reqs)

\* BigMSF::find_stream_table from the view of the page list's pages on:
\* while !buf.is_empty() { parse a u32, validate it, push it }.
BigMSF_find_viewed(m, location_location) ==
    IF ~location_location.ok
    THEN Step(FALSE, location_location.err, m.stream_table,
              <<Request("page_list", m.stream_table.page_list, location_location)>>)
    ELSE BigMSF_find_listed(m,
             <<Request("page_list", m.stream_table.page_list, location_location)>>,
             ReadPageNumbers(m.header, ParseBuffer_from(location_location.bytes), 4,
                             (Len(location_location.bytes) + 3) \div 4,
                             PageList_new(m.header.page_size)))

\* BigMSF::find_stream_table: HeaderOnly -> TableFound.
BigMSF_find_stream_table(m, dk, fault) ==
    IF m.stream_table.tag # "HeaderOnly"
    THEN Step(TRUE, NoError, m.stream_table, <<>>)
    ELSE BigMSF_find_viewed(m, view(dk, m.stream_table.page_list, fault))

\* A slip at the end of the TableFound -> Available step: the table is
\* replaced before the view is looked at, a failed one included.
map_stream_table_viewed_keeps_failed(st, stream_table_view) ==
    Step(stream_table_view.ok, stream_table_view.err, Available(stream_table_view.bytes),
         <<Request("directory", st.page_list, stream_table_view)>>)

\* The end of the TableFound -> Available step: the table is replaced only
\* when the view is good.
map_stream_table_viewed(st, stream_table_view) ==
    IF ~stream_table_view.ok
    THEN Step(FALSE, stream_table_view.err, st,
              <<Request("directory", st.page_list, stream_table_view)>>)
    ELSE Step(TRUE, NoError, Available(stream_table_view.bytes),
              <<Request("directory", st.page_list, stream_table_view)>>)

\* A slip in the cache: the directory is asked for again although it is
\* Available.
map_stream_table_again(st, dk, fault) ==
    IF st.tag = "Available"
    THEN Step(TRUE, NoError, st, <<[what |-> "directory", slices |-> <<>>, ok |-> TRUE]>>)
    ELSE IF st.tag # "TableFound"
    THEN Step(TRUE, NoError, st, <<>>)
    ELSE map_stream_table_viewed(st, view(dk, st.page_list, fault))

\* The TableFound -> Available step of make_stream_table_available of either
\* reader: view the directory.
map_stream_table(st, dk, fault) ==
    IF st.tag # "TableFound"
    THEN Step(TRUE, NoError, st, <<>>)
    ELSE map_stream_table_viewed(st, view(dk, st.page_list, fault))

\* The requests of both steps of BigMSF::make_stream_table_available.
BigMSF_make_mapped(f, a) == [a EXCEPT !.reqs = f.reqs \o a.reqs]

\* BigMSF::make_stream_table_available after find_stream_table()?.
BigMSF_make_found(f, dk, fault) ==
    IF ~f.ok THEN f
    ELSE BigMSF_make_mapped(f, map_stream_table(f.stream_table, dk, fault))

\* BigMSF::make_stream_table_available.
BigMSF_make_stream_table_available(m, dk, faults) ==
    BigMSF_make_found(BigMSF_find_stream_table(m, dk, faults.page_list), dk, faults.directory)

\* A slip in the walk over the preceding sizes: an absent stream's size counted.
pages_to_skip_for_counting_absent(hdr, bytes) == pages_needed_to_store(hdr, bytes)

\* What a preceding stream of the given size adds to page_numbers_to_skip:
\* nothing when it is u32::max_value().
pages_to_skip_for(hdr, bytes) ==
    IF bytes = U32Max THEN WOf(0) ELSE pages_needed_to_store(hdr, bytes)

Skipped(ok, err, buf, skip) == [ok |-> ok, err |-> err, buf |-> buf, skip |-> skip]

RECURSIVE SkipSizes(_, _, _, _, _)

\* One preceding size counted, and on with the loop; after is the parse of
\* the word that ends the entry.
SkipCounted(hdr, bytes, after, todo, skip, reserved) ==
    IF ~after.ok THEN Skipped(FALSE, after.err, after.buf, skip)
    ELSE SkipSizes(hdr, after.buf, todo - 1,
                   WAdd(skip, pages_to_skip_for(hdr, bytes.val)).val, reserved)

\* One preceding size parsed; in the Small directory a reserved u32 follows.
SkipSize(hdr, bytes, todo, skip, reserved) ==
    IF ~bytes.ok THEN Skipped(FALSE, bytes.err, bytes.buf, skip)
    ELSE SkipCounted(hdr, bytes, IF reserved THEN parse_u32(bytes.buf) ELSE bytes,
                     todo, skip, reserved)

\* The walk over the todo sizes before the requested stream's; reserved: each
\* size is followed by a reserved u32 (the Small directory).
SkipSizes(hdr, buf, todo, skip, reserved) ==
    IF todo = 0 THEN Skipped(TRUE, NoError, buf, skip)
    ELSE SkipSize(hdr, parse_u32(buf), todo, skip, reserved)

\* The result of the walk of look_up_stream.
Walked(ok, err, page_list, skip) ==
    [ok |-> ok, err |-> err, page_list |-> page_list, skip |-> skip]

LookupError(err, skip) == Walked(FALSE, err, NoPageList, skip)

\* The end of look_up_stream: the page list read.
walk_listed(skip, list) ==
    IF ~list.ok THEN LookupError(list.err, skip)
    ELSE Walked(TRUE, NoError, list.page_list, skip)

\* look_up_stream after the page numbers of the preceding streams are taken:
\* read_page_list on bytes_in_stream.
walk_skipped(hdr, skip, bytes_in_stream, skipped, k) ==
    IF ~skipped.ok THEN LookupError(skipped.err, skip)
    ELSE walk_listed(skip, read_page_list(hdr, bytes_in_stream, skipped.buf, k))

\* look_up_stream after the remaining sizes are taken: take the k-byte page
\* numbers of the preceding streams.
walk_rest(hdr, skip, bytes_in_stream, rest, k) ==
    IF ~rest.ok THEN LookupError(rest.err, skip)
    ELSE walk_skipped(hdr, skip, bytes_in_stream,
                      ParseBuffer_take(rest.buf, WMul(skip, k).val), k)

\* BigMSF::look_up_stream from the stream's own size on: the sentinel, then
\* the sizes of the streams after it.
BigMSF_walk_sized(hdr, stream_count, n, skip, bytes_in_stream) ==
    IF ~bytes_in_stream.ok THEN LookupError(bytes_in_stream.err, skip)
    ELSE IF bytes_in_stream.val = U32Max THEN LookupError(Err("StreamNotFound", n), skip)
    ELSE walk_rest(hdr, skip, bytes_in_stream.val,
                   ParseBuffer_take(bytes_in_stream.buf,
                                    WMul(WSub(WSub(stream_count, n), WOf(1)), 4).val),
                   4)

\* BigMSF::look_up_stream after the walk over the preceding sizes.
BigMSF_walk_before(hdr, stream_count, n, before) ==
    IF ~before.ok THEN LookupError(before.err, before.skip)
    ELSE BigMSF_walk_sized(hdr, stream_count, n, before.skip, parse_u32(before.buf))

\* A slip in the range check: stream_count itself taken for a stream.
BigMSF_walk_counted_lt(hdr, stream_count, stream_number) ==
    IF ~stream_count.ok THEN LookupError(stream_count.err, WOf(0))
    ELSE IF WLt(stream_count.val, WOf(stream_number))
    THEN LookupError(Err("StreamNotFound", WOf(stream_number)), WOf(0))
    ELSE BigMSF_walk_before(hdr, stream_count.val, WOf(stream_number),
                            SkipSizes(hdr, stream_count.buf, stream_number, WOf(0), FALSE))

\* BigMSF::look_up_stream from the stream count on.
BigMSF_walk_counted(hdr, stream_count, stream_number) ==
    IF ~stream_count.ok THEN LookupError(stream_count.err, WOf(0))
    ELSE IF WLe(stream_count.val, WOf(stream_number))
    THEN LookupError(Err("StreamNotFound", WOf(stream_number)), WOf(0))
    ELSE BigMSF_walk_before(hdr, stream_count.val, WOf(stream_number),
                            SkipSizes(hdr, stream_count.buf, stream_number, WOf(0), FALSE))

\* The walk of BigMSF::look_up_stream over the Available directory.
BigMSF_walk(hdr, stream_table_view, stream_number) ==
    BigMSF_walk_counted(hdr, parse_u32(ParseBuffer_from(stream_table_view)), stream_number)

(***************************************************************************)
(* SmallMSF (small.rs)                                                     *)
(***************************************************************************)

\* A slip at the end of SmallMSF::new: the reader starts as the Big one does,
\* the directory's page list taken for the list of the pages that hold it.
SmallMSF_new_listed_header_only(header_object, list) ==
    IF ~list.ok THEN Made(FALSE, list.err, NoMsf)
    ELSE Made(TRUE, NoError,
              [variant |-> "small", header |-> header_object,
               stream_table |-> HeaderOnly(WOf(list.page_list.len), list.page_list)])

\* The end of SmallMSF::new: the reader, TableFound, when the directory's page
\* list was read.
SmallMSF_new_listed(header_object, list) ==
    IF ~list.ok THEN Made(FALSE, list.err, NoMsf)
    ELSE Made(TRUE, NoError,
              [variant |-> "small", header |-> header_object,
               stream_table |-> TableFound(list.page_list)])

\* SmallMSF::new from the header object on: the directory's page list inline.
SmallMSF_new_sized(header_object, directory_size, buf) ==
    SmallMSF_new_listed(header_object, read_page_list(header_object, directory_size, buf, 2))

\* SmallMSF::new from the magic check on, with the fields of the RawHeader.
SmallMSF_new_parsed(header_view, page_size, pages_used, directory_size) ==
    IF SubSeq(header_view, 1, Len(SmallMagic)) # SmallMagic
    THEN Made(FALSE, Err("UnrecognizedFileFormat", WOf(0)), NoMsf)
    ELSE IF ~page_size_ok(page_size)
    THEN Made(FALSE, Err("InvalidPageSize", page_size), NoMsf)
    ELSE SmallMSF_new_sized(
             [page_size |-> WVal(page_size), maximum_valid_page_number |-> pages_used],
             directory_size,
             [data |-> header_view, pos |-> Len(SmallMagic) + 16])

\* SmallMSF::new: parse the RawHeader (44 bytes of magic, u32, u16, u16, u32,
\* u32), check the magic, then the page size, then read the directory's page
\* list inline: TableFound.
SmallMSF_new(header_view) ==
    IF Len(header_view) < Len(SmallMagic) + 16
    THEN Made(FALSE, Err("ParseError", WOf(0)), NoMsf)
    ELSE SmallMSF_new_parsed(header_view,
             Field(header_view, Len(SmallMagic), 4),
             Field(header_view, Len(SmallMagic) + 6, 2),
             Field(header_view, Len(SmallMagic) + 8, 4))

\* SmallMSF::make_stream_table_available.
SmallMSF_make_stream_table_available(m, dk, faults) ==
    map_stream_table(m.stream_table, dk, faults.directory)

\* SmallMSF::look_up_stream from the reserved word after the stream's own size
\* on: the sentinel, then the sizes of the streams after it.
SmallMSF_walk_sized(hdr, stream_count, n, skip, bytes_in_stream, reserved) ==
    IF ~reserved.ok THEN LookupError(reserved.err, skip)
    ELSE IF bytes_in_stream = U32Max THEN LookupError(Err("StreamNotFound", n), skip)
    ELSE walk_rest(hdr, skip, bytes_in_stream,
                   ParseBuffer_take(reserved.buf,
                                    WMul(WSub(WSub(stream_count, n), WOf(1)), 8).val),
                   2)

\* SmallMSF::look_up_stream from the stream's own size on.
SmallMSF_walk_size(hdr, stream_count, n, skip, bytes_in_stream) ==
    IF ~bytes_in_stream.ok THEN LookupError(bytes_in_stream.err, skip)
    ELSE SmallMSF_walk_sized(hdr, stream_count, n, skip, bytes_in_stream.val,
                             parse_u32(bytes_in_stream.buf))

\* SmallMSF::look_up_stream after the walk over the preceding sizes.
SmallMSF_walk_before(hdr, stream_count, n, before) ==
    IF ~before.ok THEN LookupError(before.err, before.skip)
    ELSE SmallMSF_walk_size(hdr, stream_count, n, before.skip, parse_u32(before.buf))

\* SmallMSF::look_up_stream from the reserved word after the stream count on.
SmallMSF_walk_counted(hdr, stream_count, reserved, stream_number) ==
    IF ~reserved.ok THEN LookupError(reserved.err, WOf(0))
    ELSE IF WLe(stream_count, WOf(stream_number))
    THEN LookupError(Err("StreamNotFound", WOf(stream_number)), WOf(0))
    ELSE SmallMSF_walk_before(hdr, stream_count, WOf(stream_number),
                              SkipSizes(hdr, reserved.buf, stream_number, WOf(0), TRUE))

\* SmallMSF::look_up_stream from the stream count on.
SmallMSF_walk_count(hdr, stream_count, stream_number) ==
    IF ~stream_count.ok THEN LookupError(stream_count.err, WOf(0))
    ELSE SmallMSF_walk_counted(hdr, stream_count.val, parse_u16(stream_count.buf),
                               stream_number)

\* The walk of SmallMSF::look_up_stream over the Available directory.
SmallMSF_walk(hdr, stream_table_view, stream_number) ==
    SmallMSF_walk_count(hdr, parse_u16(ParseBuffer_from(stream_table_view)), stream_number)

(***************************************************************************)
(* get and open_msf                                                        *)
(***************************************************************************)

\* The result of look_up_stream: that of the walk, the table and the requests
\* of make_stream_table_available.
LookedUp(a, w) ==
    [ok |-> w.ok, err |-> w.err, page_list |-> w.page_list, skip |-> w.skip,
     stream_table |-> a.stream_table, reqs |-> a.reqs]

\* BigMSF::look_up_stream after make_stream_table_available()?.
BigMSF_look_up_available(m, a, stream_number) ==
    IF ~a.ok THEN LookedUp(a, LookupError(a.err, WOf(0)))
    ELSE LookedUp(a, BigMSF_walk(m.header, a.stream_table.stream_table_view, stream_number))

\* BigMSF::look_up_stream: make the directory Available, then walk it.
BigMSF_look_up_stream(m, dk, stream_number, faults) ==
    BigMSF_look_up_available(m, BigMSF_make_stream_table_available(m, dk, faults),
                             stream_number)

\* SmallMSF::look_up_stream after make_stream_table_available()?.
SmallMSF_look_up_available(m, a, stream_number) ==
    IF ~a.ok THEN LookedUp(a, LookupError(a.err, WOf(0)))
    ELSE LookedUp(a, SmallMSF_walk(m.header, a.stream_table.stream_table_view, stream_number))

\* SmallMSF::look_up_stream.
SmallMSF_look_up_stream(m, dk, stream_number, faults) ==
    SmallMSF_look_up_available(m, SmallMSF_make_stream_table_available(m, dk, faults),
                               stream_number)

\* Option<usize>.
None == [some |-> FALSE, val |-> 0]
Some(n) == [some |-> TRUE, val |-> n]

\* A slip in get: the limit is not applied to the page list.
limit_page_list_ignored(page_list, limit) == page_list

\* if let Some(limit) = limit { page_list.truncate(limit) }.
limit_page_list(page_list, limit) ==
    IF limit.some THEN PageList_truncate(page_list, WOf(limit.val)) ELSE page_list

\* The result of get.
Gotten(ok, err, bytes, l, reqs) ==
    [ok |-> ok, err |-> err, bytes |-> bytes, skip |-> l.skip,
     stream_table |-> l.stream_table, reqs |-> reqs]

\* The end of get of either reader: the view packed into a Stream.
get_viewed(l, page_list, v) ==
    Gotten(v.ok, v.err, v.bytes, l, l.reqs \o <<Request("stream", page_list, v)>>)

\* get of either reader from the limited page list on: view it.
get_limited(l, page_list, dk, fault) == get_viewed(l, page_list, view(dk, page_list, fault))

\* The rest of get of either reader after look_up_stream(stream_number)?.
get_stream(l, dk, limit, fault) ==
    IF ~l.ok THEN Gotten(FALSE, l.err, <<>>, l, l.reqs)
    ELSE get_limited(l, limit_page_list(l.page_list, limit), dk, fault)

\* <BigMSF as Msf>::get.
BigMSF_get(m, dk, stream_number, limit, faults) ==
    get_stream(BigMSF_look_up_stream(m, dk, stream_number, faults), dk, limit, faults.stream)

\* <SmallMSF as Msf>::get.
SmallMSF_get(m, dk, stream_number, limit, faults) ==
    get_stream(SmallMSF_look_up_stream(m, dk, stream_number, faults), dk, limit, faults.stream)

\* The provisional page size of the header request.
HeaderViewSize == 4096

\* The page list of the header request: page 0 of 4096 bytes.
header_location == PageList_push(PageList_new(HeaderViewSize), WOf(0))

\* A slip in the translation of the header request's error: every I/O error
\* reported as UnrecognizedFileFormat.
open_error_all_unrecognized(e) ==
    IF e.kind = "IoError" THEN Err("UnrecognizedFileFormat", WOf(0)) ELSE e

\* The error open_msf returns for an error of the header request.
open_error(e) ==
    IF e.kind = "IoError" /\ e.io = "UnexpectedEof"
    THEN Err("UnrecognizedFileFormat", WOf(0))
    ELSE e

\* The result of open_msf.
OpenResult(made, header_view) ==
    [ok |-> made.ok, err |-> made.err, msf |-> made.msf,
     reqs |-> <<Request("header", header_location, header_view)>>]

\* open_msf from the header view on: pick the reader by the magic.
open_viewed(header_view) ==
    IF ~header_view.ok
    THEN OpenResult(Made(FALSE, open_error(header_view.err), NoMsf), header_view)
    ELSE IF header_matches(header_view.bytes, BigMagic)
    THEN OpenResult(BigMSF_new(header_view.bytes), header_view)
    ELSE IF header_matches(header_view.bytes, SmallMagic)
    THEN OpenResult(SmallMSF_new(header_view.bytes), header_view)
    ELSE OpenResult(Made(FALSE, Err("UnrecognizedFileFormat", WOf(0)), NoMsf), header_view)

\* open_msf: view the header page, pick the reader by the magic.
open_msf(dk, fault) == open_viewed(view(dk, header_location, fault))

(***************************************************************************)
(* Synthetic MSF files                                                     *)
(*                                                                         *)
(* A description s of a file: its variant, its page size, the sizes of its *)
(* streams (-1: absent), pad further empty streams (a directory of more    *)
(* than one page), whether its pages are scattered over the file, the page *)
(* size its header states and one corruption.  SynthDisk(s) is the file,   *)
(* laid out as sections 4.4, 4.5 and 6 of the specification give it.       *)
(***************************************************************************)

\* The pages of a scattered file (page 0 included).
FilePages == 18

CeilDiv(a, b) == IF a % b = 0 THEN a \div b ELSE (a \div b) + 1

StreamSizes(s) == s.sizes \o [i \in 1..s.pad |-> 0]

StreamCount(s) == Len(s.sizes) + s.pad

\* The pages of stream i (from 1).
StreamPages(s, i) ==
    IF StreamSizes(s)[i] = -1 THEN 0 ELSE CeilDiv(StreamSizes(s)[i], s.page_size)

RECURSIVE PagesBefore(_, _)
\* The pages of the streams before stream i (from 1).
PagesBefore(s, i) ==
    IF i <= 1 THEN 0 ELSE PagesBefore(s, i - 1) + StreamPages(s, i - 1)

TotalStreamPages(s) == PagesBefore(s, StreamCount(s) + 1)

DirectorySize(s) ==
    IF s.variant = "big"
    THEN 4 * (1 + StreamCount(s) + TotalStreamPages(s))
    ELSE 4 + 8 * StreamCount(s) + 2 * TotalStreamPages(s)

DirectoryPages(s) == CeilDiv(DirectorySize(s), s.page_size)

\* The pages that hold the directory's page list (Big only).
PageListPages(s) ==
    IF s.variant = "big" THEN CeilDiv(4 * DirectoryPages(s), s.page_size) ELSE 0

UsedPages(s) == PageListPages(s) + DirectoryPages(s) + TotalStreamPages(s)

NumPages(s) == IF s.scattered THEN FilePages ELSE 1 + UsedPages(s)

\* The page of the file that holds the k-th page in use (the page list's pages,
\* then the directory's, then the streams' in order): one after the other from
\* page 1, or scattered in no order.
Phys(s, k) == IF s.scattered THEN 1 + ((k * 7) % (FilePages - 1)) ELSE k

\* Bit width k bytes of each number of a sequence, little-endian, one after the other.
Flat(numbers, k) ==
    [i \in 1..(k * Len(numbers)) |->
        LET v == numbers[((i - 1) \div k) + 1]
            j == (i - 1) % k
        IN IF v = -1 THEN 255
           ELSE IF j = 0 THEN v % 256
           ELSE IF j = 1 THEN (v \div 256) % 256
           ELSE IF j = 2 THEN (v \div 65536) % 256
           ELSE (v \div 16777216) % 256]

\* A page number that no file may refer to: page 0 or one past pages_used.
BadPage(s, how) == IF how = "zero" THEN 0 ELSE NumPages(s) + 1

\* The page numbers the header lists: of the page list's pages (Big), of the
\* directory's pages (Small).
InlinePageNumbers(s) ==
    LET n == IF s.variant = "big" THEN PageListPages(s) ELSE DirectoryPages(s)
    IN [q \in 1..n |->
          IF q = 1 /\ s.corrupt = "inline_zero" THEN BadPage(s, "zero")
          ELSE IF q = 1 /\ s.corrupt = "inline_high" THEN BadPage(s, "high")
          ELSE Phys(s, q)]

\* The directory's page numbers as the page list's pages hold them (Big).
DirectoryPageNumbers(s) ==
    [q \in 1..DirectoryPages(s) |->
        IF q = 1 /\ s.corrupt = "page_list_zero" THEN BadPage(s, "zero")
        ELSE IF q = 1 /\ s.corrupt = "page_list_high" THEN BadPage(s, "high")
        ELSE Phys(s, PageListPages(s) + q)]

\* The streams' page numbers as the directory holds them.
StreamPageNumbers(s) ==
    [k \in 1..TotalStreamPages(s) |->
        IF k = 1 /\ s.corrupt = "stream_zero" THEN BadPage(s, "zero")
        ELSE IF k = 1 /\ s.corrupt = "stream_high" THEN BadPage(s, "high")
        ELSE Phys(s, PageListPages(s) + DirectoryPages(s) + k)]

DirectoryBytes(s) ==
    IF s.variant = "big"
    THEN Flat(<<StreamCount(s)>>, 4) \o Flat(StreamSizes(s), 4) \o Flat(StreamPageNumbers(s), 4)
    ELSE Flat(<<StreamCount(s), 0>>, 2)
         \o Flat([i \in 1..(2 * StreamCount(s)) |->
                     IF i % 2 = 1 THEN StreamSizes(s)[(i + 1) \div 2] ELSE 0], 4)
         \o Flat(StreamPageNumbers(s), 2)

\* The header's pages_used and directory_size.
PagesUsedField(s) == IF s.corrupt = "no_pages" THEN 0 ELSE NumPages(s)

DirectorySizeField(s) == IF s.corrupt = "directory_short" THEN 4 ELSE DirectorySize(s)

MagicBytes(s) ==
    LET magic == IF s.variant = "big" THEN BigMagic ELSE SmallMagic
    IN IF s.corrupt = "magic" THEN [magic EXCEPT ![Len(magic)] = 1] ELSE magic

HeaderBytes(s) ==
    IF s.variant = "big"
    THEN MagicBytes(s) \o s.page_size_field
         \o Flat(<<2, PagesUsedField(s), DirectorySizeField(s), 0>>, 4)
         \o Flat(InlinePageNumbers(s), 4)
    ELSE MagicBytes(s) \o s.page_size_field
         \o Flat(<<1, PagesUsedField(s)>>, 2)
         \o Flat(<<DirectorySizeField(s), 0>>, 4)
         \o Flat(InlinePageNumbers(s), 2)

\* The bytes of page q (from 1) of a region laid out in pages.
PageOf(bytes, q, page_size) ==
    SubSeq(bytes, (q - 1) * page_size + 1,
           IF q * page_size < Len(bytes) THEN q * page_size ELSE Len(bytes))

\* The page p of the file.
SynthPage(s, p) ==
    LET used == {k \in 1..UsedPages(s) : Phys(s, k) = p}
        k == CHOOSE x \in used : TRUE
        d == k - PageListPages(s)
        t == d - DirectoryPages(s)
        i == CHOOSE x \in 1..StreamCount(s) :
                 PagesBefore(s, x) < t /\ t <= PagesBefore(s, x + 1)
    IN IF p = 0 THEN BytesPage(HeaderBytes(s))
       ELSE IF used = {} THEN FreePage
       ELSE IF d <= 0 THEN BytesPage(PageOf(Flat(DirectoryPageNumbers(s), 4), k, s.page_size))
       ELSE IF t <= 0 THEN BytesPage(PageOf(DirectoryBytes(s), d, s.page_size))
       ELSE DataPage(i - 1, t - PagesBefore(s, i) - 1)

\* The file of a description; "elf": the four bytes 7F 45 4C 46 and no more.
SynthDisk(s) ==
    IF s.variant = "elf"
    THEN [len |-> 4, page_size |-> HeaderViewSize,
          pages |-> [p \in {0} |-> BytesPage(<<127, 69, 76, 70>>)]]
    ELSE [len |-> NumPages(s) * s.page_size, page_size |-> s.page_size,
          pages |-> [p \in 0..(NumPages(s) - 1) |-> SynthPage(s, p)]]

\* The content of stream n (from 0) of a description, -1 standing for absent.
Expected(s, n) ==
    [k \in 1..StreamSizes(s)[n + 1] |-> Content(n, k - 1)]

(***************************************************************************)
(* The files, the calls and the state                                      *)
(***************************************************************************)

\* The streams a synthetic file describes (before padding).
MaxStreams == 2

\* The empty streams that pad a directory beyond one page.
PadStreams == 62

PageSizeField(n) == LEBytes(n, U32Bytes)

\* Stream sizes: absent, empty, within a page, and a page and a byte.
SizeChoices(page_size) ==
    {-1, 0, 12} \cup (IF page_size = MinPageSize THEN {page_size + 1} ELSE {})

\* The sizes of the streams of a file: every pair of choices for the first two,
\* 12 bytes for the rest.
SizeVectors(page_size) ==
    {[i \in 1..MaxStreams |-> IF i = 1 THEN a ELSE IF i = 2 THEN b ELSE 12] :
        a \in SizeChoices(page_size), b \in SizeChoices(page_size)}

\* Well-formed files.
WellFormed ==
    UNION {
        [variant : {"big", "small"}, page_size : {page_size},
         sizes : SizeVectors(page_size),
         pad : {0}, scattered : BOOLEAN,
         page_size_field : {PageSizeField(page_size)}, corrupt : {"none"}]
        : page_size \in {MinPageSize, HeaderViewSize, MaxPageSize}}

\* The shapes the damaged files are made from.
BaseShapes ==
    [variant : {"big", "small"}, page_size : {MinPageSize},
     sizes : {[i \in 1..MaxStreams |-> IF i = 1 THEN 12 ELSE MinPageSize + 1],
              [i \in 1..MaxStreams |-> IF i = 1 THEN -1 ELSE 12]},
     pad : {0}, scattered : {TRUE},
     page_size_field : {PageSizeField(MinPageSize)}, corrupt : {"none"}]

Corruptions ==
    {"magic", "inline_zero", "inline_high", "page_list_zero", "page_list_high",
     "stream_zero", "stream_high", "no_pages", "directory_short"}

\* Files with one page number, the magic, pages_used or directory_size damaged.
Damaged ==
    {[b EXCEPT !.corrupt = c] : b \in BaseShapes, c \in Corruptions}

\* Page sizes no header may state: 0, a power of two below 0x100, a number in
\* range that is no power of two, one past the greatest, powers of two above
\* it, u32::MAX.
BadPageSizes ==
    {PageSizeField(0), PageSizeField(128), PageSizeField(384), PageSizeField(MaxPageSize + 1),
     PageSizeField(2 * MaxPageSize), <<0, 0, 0, 128>>, <<255, 255, 255, 255>>}

\* Files whose header states a bad page size, alone or with more damage.
BadlySized ==
    {[b EXCEPT !.page_size_field = f, !.corrupt = c] :
        b \in BaseShapes, f \in BadPageSizes,
        c \in {"none", "inline_zero", "no_pages", "directory_short"}}

ElfFile ==
    [variant |-> "elf", page_size |-> HeaderViewSize, sizes |-> <<>>, pad |-> 0,
     scattered |-> FALSE, page_size_field |-> PageSizeField(0), corrupt |-> "none"]

\* Well-formed files whose directory takes more than one page.
Padded ==
    {[b EXCEPT !.pad = PadStreams, !.page_size = page_size,
               !.page_size_field = PageSizeField(page_size), !.scattered = scattered] :
        b \in BaseShapes, page_size \in {MinPageSize, HeaderViewSize}, scattered \in BOOLEAN}

Synths == WellFormed \cup Padded \cup Damaged \cup BadlySized \cup {ElfFile}

\* The limits get is called with.
Limits == {None, Some(5), Some(MinPageSize)}

\* The stream numbers get is called with on a file: its streams before the
\* padding, the first padding stream or one past, and stream_count.
StreamNumbers(s) == 0..Len(s.sizes) \cup {StreamCount(s)}

NoLast ==
    [op |-> "none", stream_number |-> 0, limit |-> None, fault |-> "none",
     ok |-> FALSE, err |-> NoError, bytes |-> <<>>, reqs |-> <<>>, skip |-> WOf(0),
     before |-> "None"]

NoMemo ==
    [set |-> FALSE, stream_number |-> 0, limit |-> None, before |-> "None",
     ok |-> FALSE, err |-> NoError, bytes |-> <<>>]

\* No call of a Header method made yet on the header h, whose
\* maximum_valid_page_number is the m-th of the numbers tried.
NoProbe(h, m) ==
    [fn |-> "none", h |-> h, m |-> m, usize_bytes |-> 0, q |-> 0, r |-> 0, n |-> 0,
     arg |-> WOf(0), ok |-> FALSE, err |-> NoError, val |-> WOf(0), overflow |-> FALSE]

\* The kinds of the requests reqs.
Kinds(reqs) == {reqs[i].what : i \in 1..Len(reqs)}

Init ==
    /\ synth \in Synths
    /\ disk = SynthDisk(synth)
    /\ pc = "closed"
    /\ msf = NoMsf
    /\ last = NoLast
    /\ asked = {}
    /\ memo = NoMemo
    /\ probe = NoProbe(NoHeader, 0)

\* The state after open_msf returned r.
Opened(r, fault) ==
    /\ pc' = IF r.ok THEN "open" ELSE "failed"
    /\ msf' = r.msf
    /\ last' = [NoLast EXCEPT !.op = "open", !.fault = fault, !.ok = r.ok,
                              !.err = r.err, !.reqs = r.reqs]
    /\ UNCHANGED <<synth, disk, asked, memo, probe>>

\* open_msf on the file, the transport failing the header request or not.
OpenStep(fault) ==
    /\ pc = "closed"
    /\ Opened(open_msf(disk, fault), fault)

\* The faults of a get whose request of kind at (if it makes one) fails.
FaultsAt(at) ==
    [page_list |-> IF at = "page_list" THEN "Other" ELSE "none",
     directory |-> IF at = "directory" THEN "Other" ELSE "none",
     stream |-> IF at = "stream" THEN "Other" ELSE "none"]

\* Msf::get on the reader open_msf returned.
msf_get(m, dk, stream_number, limit, faults) ==
    IF m.variant = "big"
    THEN BigMSF_get(m, dk, stream_number, limit, faults)
    ELSE SmallMSF_get(m, dk, stream_number, limit, faults)

\* The state after get(stream_number, limit) returned r; remember: the call and
\* its outcome are kept for a later comparison.
Got(r, stream_number, limit, at, remember) ==
    /\ msf' = [msf EXCEPT !.stream_table = r.stream_table]
    /\ last' = [op |-> "get", stream_number |-> stream_number, limit |-> limit,
                fault |-> IF at \in Kinds(r.reqs) THEN at ELSE "none",
                ok |-> r.ok, err |-> r.err, bytes |-> r.bytes, reqs |-> r.reqs,
                skip |-> r.skip, before |-> msf.stream_table.tag]
    /\ asked' = asked \cup Kinds(last.reqs)
    /\ memo' = IF remember
               THEN [set |-> TRUE, stream_number |-> stream_number, limit |-> limit,
                     before |-> msf.stream_table.tag,
                     ok |-> r.ok, err |-> r.err, bytes |-> r.bytes]
               ELSE memo
    /\ UNCHANGED <<synth, disk, pc, probe>>

\* get(stream_number, limit), the transport failing the request of kind at or
\* none.
GetStep(stream_number, limit, at, remember) ==
    /\ pc = "open"
    /\ Got(msf_get(msf, disk, stream_number, limit, FaultsAt(at)),
           stream_number, limit, at, remember)

Open == \E fault \in {"none", "UnexpectedEof", "Other"} : OpenStep(fault)

\* The requests a get may still make of a table in this state.
MayAsk(tag) ==
    IF tag = "HeaderOnly" THEN {"page_list", "directory", "stream"}
    ELSE IF tag = "TableFound" THEN {"directory", "stream"}
    ELSE {"stream"}

\* A get with or without a limit that the transport serves.
Get ==
    \E stream_number \in StreamNumbers(synth), limit \in Limits :
        GetStep(stream_number, limit, "none", FALSE)

\* A get one of whose requests the transport fails.
GetFailing ==
    \E stream_number \in StreamNumbers(synth), at \in MayAsk(msf.stream_table.tag) :
        GetStep(stream_number, None, at, FALSE)

Next == Open \/ Get \/ GetFailing

Spec == Init /\ [][Next]_vars

(***************************************************************************)
(* One reader over an unchanging transport: the first get is remembered    *)
(***************************************************************************)

\* The limits of the gets that are compared.
TwiceLimits == {None, Some(5)}

\* open_msf, the transport serving the header request.
OpenQuiet == OpenStep("none")

\* The first get on the reader, remembered.
GetFirst ==
    \E stream_number \in StreamNumbers(synth), limit \in TwiceLimits :
        /\ ~memo.set
        /\ GetStep(stream_number, limit, "none", TRUE)

\* A later get on the reader.
GetAgain ==
    \E stream_number \in StreamNumbers(synth), limit \in TwiceLimits :
        /\ memo.set
        /\ GetStep(stream_number, limit, "none", FALSE)

NextTwice == OpenQuiet \/ GetFirst \/ GetAgain

SpecTwice == Init /\ [][NextTwice]_vars

(***************************************************************************)
(* The methods of Header, called on their own                              *)
(***************************************************************************)

RECURSIVE Doubles(_)
\* p, 2p, 4p, ... up to MaxPageSize.
Doubles(p) == IF p > MaxPageSize THEN {} ELSE {p} \cup Doubles(2 * p)

\* The page sizes a Header can have: the powers of two from 0x100 to 0x800000.
ValidPageSizes == Doubles(MinPageSize)

\* 32-bit numbers in increasing order: 0, 1, 2, around 2^8, 2^16, 2^31 and 2^32.
ProbeNumbers ==
    <<WOf(0), WOf(1), WOf(2), WOf(255), WOf(256), WOf(65535), WOf(65536),
      WOf(2147483647), <<0, 0, 0, 128, 0, 0, 0, 0>>, <<254, 255, 255, 255, 0, 0, 0, 0>>,
      U32Max>>

\* The widths of usize in bytes: a 32-bit and a 64-bit target.
UsizeWidths == {U32Bytes, WBytes}

\* Byte counts q * page_size + r up to 0xFFFF_FFFF: the quotients and the
\* remainders.
Quotients(page_size) == {0, 1, 2, (16777216 \div (page_size \div 256)) - 1}
Remainders(page_size) == {0, 1, page_size - 1}

ByteCount(q, r, page_size) == WAdd(WMul(WOf(q), page_size).val, WOf(r)).val

InitHeader ==
    /\ synth = ElfFile
    /\ disk = SynthDisk(synth)
    /\ pc = "closed"
    /\ msf = NoMsf
    /\ last = NoLast
    /\ asked = {}
    /\ memo = NoMemo
    /\ probe \in {NoProbe([page_size |-> page_size,
                           maximum_valid_page_number |-> ProbeNumbers[m]], m) :
                     page_size \in ValidPageSizes, m \in 1..Len(ProbeNumbers)}

\* The state after h.pages_needed_to_store(arg) returned res.
PagesNeeded(res, usize_bytes, q, r, arg) ==
    /\ probe' = [NoProbe(probe.h, probe.m) EXCEPT
                    !.fn = "pages_needed_to_store", !.usize_bytes = usize_bytes,
                    !.q = q, !.r = r, !.arg = arg, !.ok = TRUE,
                    !.val = res.val, !.overflow = res.overflow]
    /\ UNCHANGED <<synth, disk, pc, msf, last, asked, memo>>

\* h.pages_needed_to_store(q * page_size + r) on a target of either width.
CallPagesNeeded ==
    \E usize_bytes \in UsizeWidths, q \in Quotients(probe.h.page_size),
       r \in Remainders(probe.h.page_size) :
        PagesNeeded(pages_needed_to_store_on(usize_bytes, probe.h,
                                             ByteCount(q, r, probe.h.page_size)),
                    usize_bytes, q, r, ByteCount(q, r, probe.h.page_size))

\* The state after h.validate_page_number(ProbeNumbers[n]) returned res.
Validated(res, n) ==
    /\ probe' = [NoProbe(probe.h, probe.m) EXCEPT
                    !.fn = "validate_page_number", !.n = n, !.arg = ProbeNumbers[n],
                    !.ok = res.ok, !.err = res.err, !.val = res.val]
    /\ UNCHANGED <<synth, disk, pc, msf, last, asked, memo>>

\* h.validate_page_number(n) for a 32-bit n.
CallValidate ==
    \E n \in 1..Len(ProbeNumbers) :
        Validated(validate_page_number(probe.h, ProbeNumbers[n]), n)

NextHeader == CallPagesNeeded \/ CallValidate

SpecHeader == InitHeader /\ [][NextHeader]_vars

(***************************************************************************)
(* What the claims are stated with: the directory as the reader holds it   *)
(***************************************************************************)

\* The directory of an Available table.
Dir == msf.stream_table.stream_table_view

\* The bytes of an entry of the size table: a size (Big), a size and a
\* reserved word (Small).
EntryBytes == IF msf.variant = "big" THEN 4 ELSE 8

\* stream_count as the directory states it.
DirCount == IF msf.variant = "big" THEN Field(Dir, 0, 4) ELSE Field(Dir, 0, 2)

\* The directory is Available and holds its whole size table.
SizeTablePresent ==
    /\ msf.stream_table.tag = "Available"
    /\ Len(Dir) >= 4
    /\ WFits(DirCount)
    /\ 4 + EntryBytes * WVal(DirCount) <= Len(Dir)

\* The size of stream j (from 0) as the directory states it.
DirSize(j) == Field(Dir, 4 + EntryBytes * j, 4)

\* The pages of stream j: none when it is absent.
DirPages(j) ==
    IF DirSize(j) = U32Max THEN 0 ELSE CeilDiv(WVal(DirSize(j)), msf.header.page_size)

RECURSIVE DirPagesBefore(_)
\* The pages of the present streams before stream n.
DirPagesBefore(n) == IF n = 0 THEN 0 ELSE DirPagesBefore(n - 1) + DirPages(n - 1)

\* The k-th page number (from 0) after the size table.
DirPageNumber(k) ==
    IF msf.variant = "big"
    THEN Field(Dir, 4 + 4 * WVal(DirCount) + 4 * k, 4)
    ELSE Field(Dir, 4 + 8 * WVal(DirCount) + 2 * k, 2)

\* The byte ranges of stream n: its pages in the directory's order, the last
\* one cut at the stream's size.
DirSlices(n) ==
    [i \in 1..DirPages(n) |->
        [offset |-> WMul(DirPageNumber(DirPagesBefore(n) + i - 1), msf.header.page_size).val,
         size |-> IF i < DirPages(n) THEN msf.header.page_size
                  ELSE WVal(DirSize(n)) - (DirPages(n) - 1) * msf.header.page_size]]

\* The file is one of the well-formed ones.
WellFormedFile == synth \in WellFormed \cup Padded

\* The file is well-formed but for one damaged field.
DamagedFile == synth \in Damaged

\* The stream the first page number after the size table belongs to.
FirstPaged(s) == CHOOSE i \in 0..(StreamCount(s) - 1) :
                     /\ StreamPages(s, i + 1) > 0
                     /\ \A j \in 0..(i - 1) : StreamPages(s, j + 1) = 0

\* The page number a damaged file holds in place of a good one.
BadPageOf(s) ==
    IF s.corrupt \in {"inline_zero", "page_list_zero", "stream_zero"}
    THEN WOf(BadPage(s, "zero"))
    ELSE WOf(BadPage(s, "high"))

(***************************************************************************)
(* The claims                                                              *)
(***************************************************************************)

\* C1 as the specification states it: on every well-formed file open_msf
\* succeeds when the transport serves it, and get(i, no limit) of a present
\* stream i returns exactly the stream's content.
C1_RoundTrip ==
    /\ (WellFormedFile /\ last.op = "open" /\ last.fault = "none") => last.ok
    /\ (/\ WellFormedFile
        /\ last.op = "get"
        /\ last.fault = "none"
        /\ last.limit = None
        /\ last.stream_number < StreamCount(synth)
        /\ StreamSizes(synth)[last.stream_number + 1] # -1)
       => (last.ok /\ last.bytes = Expected(synth, last.stream_number))

\* The requested stream is out of range or marked absent in the directory.
NoSuchStream ==
    \/ WLe(DirCount, WOf(last.stream_number))
    \/ DirSize(last.stream_number) = U32Max

\* C2: when the directory is Available with its whole size table, get(n, _)
\* fails with StreamNotFound(n) exactly when n >= stream_count or the size of
\* stream n is 0xFFFF_FFFF, and then no stream pages are requested.
C2_StreamNotFound ==
    (last.op = "get" /\ SizeTablePresent)
    => /\ (last.err.kind = "StreamNotFound") <=> NoSuchStream
       /\ NoSuchStream
          => /\ ~last.ok
             /\ last.err = Err("StreamNotFound", WOf(last.stream_number))
             /\ "stream" \notin Kinds(last.reqs)

\* get(stream_count) has failed with StreamNotFound(stream_count) and asked
\* for no stream pages.
C2_Witness ==
    /\ last.op = "get"
    /\ SizeTablePresent
    /\ DirCount = WOf(last.stream_number)
    /\ last.err = Err("StreamNotFound", DirCount)
    /\ "stream" \notin Kinds(last.reqs)

\* C3: for a stream n below stream_count the page numbers skipped are as many
\* as the pages of the present streams before n (an absent one adds none),
\* the ranges requested for the stream are those of the ceil(size_n /
\* page_size) page numbers that follow, and on an undamaged file the get of
\* a present stream succeeds with the stream's own content.
C3_SkipsPresentPages ==
    (last.op = "get" /\ SizeTablePresent /\ WLt(WOf(last.stream_number), DirCount))
    => /\ last.skip = WOf(DirPagesBefore(last.stream_number))
       /\ \A i \in 1..Len(last.reqs) :
              (last.reqs[i].what = "stream" /\ last.limit = None)
              => last.reqs[i].slices = DirSlices(last.stream_number)
       /\ (/\ DirSize(last.stream_number) # U32Max
           /\ synth.corrupt = "none"
           /\ last.fault = "none")
          => /\ last.ok
             /\ last.limit = None => last.bytes = Expected(synth, last.stream_number)

\* A stream of two pages has been read in full after an absent stream, no
\* page number skipped.
C3_Witness ==
    /\ last.op = "get"
    /\ last.ok
    /\ last.stream_number = 1
    /\ synth.sizes[1] = -1
    /\ last.skip = WOf(0)
    /\ Len(last.bytes) = MinPageSize + 1
    /\ last.bytes = Expected(synth, 1)

\* The range is a page, or the start of one, whose number p is 1 <= p <=
\* pages_used.
ValidPageSlice(sl) ==
    /\ WMul(WDiv(sl.offset, msf.header.page_size), msf.header.page_size).val = sl.offset
    /\ WDiv(sl.offset, msf.header.page_size) # WOf(0)
    /\ WLe(WDiv(sl.offset, msf.header.page_size), msf.header.maximum_valid_page_number)

\* C4: every range requested from the transport, the header request apart,
\* is of a page p with 1 <= p <= pages_used; a page number 0 or pages_used + 1
\* in the header's inline list, in the directory's page list or among the
\* requested stream's page numbers fails the operation with
\* PageReferenceOutOfRange(p), and the pages it is listed with are not
\* requested.
C4_PageNumbersValidated ==
    /\ \A i \in 1..Len(last.reqs) :
           last.reqs[i].what # "header"
           => \A j \in 1..Len(last.reqs[i].slices) : ValidPageSlice(last.reqs[i].slices[j])
    /\ (/\ DamagedFile
        /\ synth.corrupt \in {"inline_zero", "inline_high"}
        /\ last.op = "open"
        /\ last.fault = "none")
       => /\ ~last.ok
          /\ last.err = Err("PageReferenceOutOfRange", BadPageOf(synth))
          /\ Kinds(last.reqs) = {"header"}
    /\ (/\ DamagedFile
        /\ synth.variant = "big"
        /\ synth.corrupt \in {"page_list_zero", "page_list_high"}
        /\ last.op = "get"
        /\ last.fault = "none")
       => /\ ~last.ok
          /\ last.err = Err("PageReferenceOutOfRange", BadPageOf(synth))
          /\ Kinds(last.reqs) = {"page_list"}
    /\ (/\ DamagedFile
        /\ synth.corrupt \in {"stream_zero", "stream_high"}
        /\ last.op = "get"
        /\ last.fault = "none"
        /\ last.stream_number = FirstPaged(synth))
       => /\ ~last.ok
          /\ last.err = Err("PageReferenceOutOfRange", BadPageOf(synth))
          /\ "stream" \notin Kinds(last.reqs)

\* A get has failed with PageReferenceOutOfRange(pages_used + 1) on the
\* directory's page list, and the directory was not requested.
C4_Witness ==
    /\ last.op = "get"
    /\ synth.variant = "big"
    /\ synth.corrupt = "page_list_high"
    /\ last.err = Err("PageReferenceOutOfRange", WOf(BadPage(synth, "high")))
    /\ Kinds(last.reqs) = {"page_list"}

\* C5: validate_page_number(n) on a Header with maximum_valid_page_number M
\* is Err(PageReferenceOutOfRange(n)) exactly when n = 0 or n > M, and Ok(n)
\* otherwise.
C5_ValidatePageNumber ==
    probe.fn = "validate_page_number"
    => /\ probe.ok <=> ~(probe.n = 1 \/ probe.n > probe.m)
       /\ probe.ok => probe.val = ProbeNumbers[probe.n]
       /\ ~probe.ok => probe.err = Err("PageReferenceOutOfRange", ProbeNumbers[probe.n])

\* The greatest valid page number, M itself, has been accepted for an M of
\* 2^31 or more.
C5_Witness ==
    /\ probe.fn = "validate_page_number"
    /\ probe.n = probe.m
    /\ probe.n >= 9
    /\ probe.ok
    /\ probe.val = ProbeNumbers[probe.m]

\* C6 as the specification states it: for every byte count b = q * page_size
\* + r up to 0xFFFF_FFFF, pages_needed_to_store(b) is ceil(b / page_size),
\* and the sum b + (page_size - 1) does not overflow.
C6_CeilWithoutOverflow ==
    probe.fn = "pages_needed_to_store"
    => /\ ~probe.overflow
       /\ probe.val = WOf(probe.q + (IF probe.r > 0 THEN 1 ELSE 0))

\* The page sizes a header may state, as the four bytes of the field: one bit
\* set, in the second or the third byte.
ValidPageSizeFields ==
    {<<0, b, 0, 0>> : b \in {1, 2, 4, 8, 16, 32, 64, 128}}
    \cup {<<0, 0, b, 0>> : b \in {1, 2, 4, 8, 16, 32, 64, 128}}

\* open_msf was given the header page of a file with the Big or the Small
\* magic.
MagicSeen ==
    /\ last.op = "open"
    /\ Len(last.reqs) = 1
    /\ last.reqs[1].ok
    /\ synth.variant \in {"big", "small"}
    /\ synth.corrupt # "magic"

\* C7: the construction of either reader from a header whose magic matches
\* fails with InvalidPageSize(page_size) exactly when page_size is no power
\* of two in [0x100, 0x800000], whatever the other fields of the header are.
C7_InvalidPageSize ==
    MagicSeen
    => /\ (last.err.kind = "InvalidPageSize")
          <=> (synth.page_size_field \notin ValidPageSizeFields)
       /\ synth.page_size_field \notin ValidPageSizeFields
          => /\ ~last.ok
             /\ last.err = Err("InvalidPageSize", WExt(synth.page_size_field))

\* InvalidPageSize has been reported for a header whose inline page list is
\* bad too.
C7_Witness ==
    /\ MagicSeen
    /\ synth.corrupt = "inline_zero"
    /\ last.err = Err("InvalidPageSize", WExt(synth.page_size_field))

\* The leading bytes of the file are neither magic.
NoMagic == synth.variant = "elf" \/ synth.corrupt = "magic"

\* C8: open_msf fails with UnrecognizedFileFormat when the header request
\* meets the end of the file or the leading bytes are neither magic, and
\* returns every other error of the header request as it is.
C8_UnrecognizedFileFormat ==
    last.op = "open"
    => /\ (\/ last.fault = "UnexpectedEof"
           \/ (last.fault = "none" /\ disk.len < HeaderViewSize)
           \/ (last.fault = "none" /\ NoMagic))
          => (~last.ok /\ last.err = Err("UnrecognizedFileFormat", WOf(0)))
       /\ last.fault = "Other" => (~last.ok /\ last.err = IoError("Other"))

\* The file of four bytes has been refused as UnrecognizedFileFormat.
C8_Witness ==
    /\ last.op = "open"
    /\ synth = ElfFile
    /\ last.fault = "none"
    /\ last.err = Err("UnrecognizedFileFormat", WOf(0))

C10_Idempotent ==
    (/\ memo.set
     /\ last.op = "get"
     /\ last.stream_number = memo.stream_number
     /\ last.limit = memo.limit)
    => /\ last.ok = memo.ok
       /\ last.err = memo.err
       /\ last.bytes = memo.bytes

\* A get that found the directory cached has returned the bytes that the
\* same get returned when it had to fetch the directory.
C10_Witness ==
    /\ memo.set
    /\ memo.before # "Available"
    /\ memo.ok
    /\ last.op = "get"
    /\ last.before = "Available"
    /\ last.stream_number = memo.stream_number
    /\ last.limit = memo.limit
    /\ last.ok
    /\ Len(last.bytes) > 0
    /\ last.bytes = memo.bytes

RECURSIVE SliceBytes(_, _)
\* The bytes that slices i.. ask for.
SliceBytes(slices, i) ==
    IF i > Len(slices) THEN 0 ELSE slices[i].size + SliceBytes(slices, i + 1)

\* The length get is to return for the stream it was last called on: its size
\* in the directory, capped by the limit.
CappedSize ==
    IF last.limit.some /\ last.limit.val < WVal(DirSize(last.stream_number))
    THEN last.limit.val
    ELSE WVal(DirSize(last.stream_number))

\* The last call was a get, served by the transport, of a stream that the
\* directory holds as present.
GetOfPresent ==
    /\ last.op = "get"
    /\ last.fault = "none"
    /\ SizeTablePresent
    /\ WLt(WOf(last.stream_number), DirCount)
    /\ DirSize(last.stream_number) # U32Max

\* C11: get(n, None) of a present stream of size s returns s bytes, get(n,
\* Some(limit)) returns the first min(s, limit) of them, and the ranges
\* requested for the stream add up to no more than min(s, limit) bytes.
C11_LimitCaps ==
    GetOfPresent
    => /\ synth.corrupt = "none" => last.ok
       /\ last.ok
          => /\ Len(last.bytes) = CappedSize
             /\ last.bytes = SubSeq(Expected(synth, last.stream_number), 1, CappedSize)
       /\ \A i \in 1..Len(last.reqs) :
              last.reqs[i].what = "stream"
              => SliceBytes(last.reqs[i].slices, 1) <= CappedSize

\* A stream of a page and a byte has been read with a limit of one page: a
\* page of bytes returned, and one range requested.
C11_Witness ==
    /\ GetOfPresent
    /\ last.ok
    /\ last.limit = Some(MinPageSize)
    /\ WVal(DirSize(last.stream_number)) = MinPageSize + 1
    /\ Len(last.bytes) = MinPageSize
    /\ \E i \in 1..Len(last.reqs) :
           last.reqs[i].what = "stream" /\ Len(last.reqs[i].slices) = 1

\* The place of a StreamTable in its lifecycle.
TagRank(tag) ==
    CASE tag = "HeaderOnly" -> 1
      [] tag = "TableFound" -> 2
      [] tag = "Available" -> 3
      [] OTHER -> 0

\* The request of kind what that a call made was served by the transport.
Served(reqs, what) == \E i \in 1..Len(reqs) : reqs[i].what = what /\ reqs[i].ok

\* C12: a Big reader starts HeaderOnly and a Small reader TableFound, never
\* to be HeaderOnly; a get leaves the table where it is or moves it forward,
\* from HeaderOnly by a served request of the page list's pages and to
\* Available by a served request of the directory's pages; an Available
\* table, its view included, stays as it is through every later get.
C12_Monotonic ==
    [][/\ (pc = "closed" /\ pc' = "open")
          => /\ msf'.variant \in {"big", "small"}
             /\ msf'.variant = "big" => msf'.stream_table.tag = "HeaderOnly"
             /\ msf'.variant = "small" => msf'.stream_table.tag = "TableFound"
       /\ pc = "open"
          => /\ pc' = "open"
             /\ msf'.variant = msf.variant
             /\ msf'.header = msf.header
             /\ TagRank(msf'.stream_table.tag) >= TagRank(msf.stream_table.tag)
             /\ msf.variant = "small" => msf'.stream_table.tag # "HeaderOnly"
             /\ (msf.stream_table.tag = "HeaderOnly" /\ msf'.stream_table.tag # "HeaderOnly")
                => Served(last'.reqs, "page_list")
             /\ (msf.stream_table.tag # "Available" /\ msf'.stream_table.tag = "Available")
                => Served(last'.reqs, "directory")
             /\ msf.stream_table.tag = "Available"
                => msf'.stream_table = msf.stream_table
      ]_vars

\* A Big reader that an earlier get left TableFound has been made Available
\* by a get.
C12_Witness ==
    /\ msf.variant = "big"
    /\ last.op = "get"
    /\ last.before = "TableFound"
    /\ msf.stream_table.tag = "Available"
    /\ Len(msf.stream_table.stream_table_view) > 0

\* What get(n, limit) is to return on the file for a present stream n: the
\* stream's content, cut at the limit.
ExpectedWithin(s, n, limit) ==
    IF limit.some /\ limit.val < StreamSizes(s)[n + 1]
    THEN SubSeq(Expected(s, n), 1, limit.val)
    ELSE Expected(s, n)

\* C13: a get one of whose requests the transport fails returns the
\* transport's error and makes no further request; the table is left
\* HeaderOnly when the page list's pages failed, TableFound when the
\* directory's pages failed and Available when the stream's pages failed;
\* and the get that follows a failed one on an undamaged file, the transport
\* working, returns the content of the stream it asks for.
C13_FailedRead ==
    [][/\ (last'.op = "get" /\ last'.fault # "none")
          => /\ ~last'.ok
             /\ last'.err = IoError("Other")
             /\ last'.bytes = <<>>
             /\ last'.reqs[Len(last'.reqs)].what = last'.fault
             /\ ~last'.reqs[Len(last'.reqs)].ok
             /\ \A i \in 1..(Len(last'.reqs) - 1) : last'.reqs[i].ok
             /\ last'.fault = "page_list"
                => (msf.stream_table.tag = "HeaderOnly" /\ msf'.stream_table = msf.stream_table)
             /\ last'.fault = "directory"
                => /\ msf.stream_table.tag # "Available"
                   /\ msf'.stream_table.tag = "TableFound"
                   /\ msf.stream_table.tag = "TableFound"
                      => msf'.stream_table = msf.stream_table
             /\ last'.fault = "stream" => msf'.stream_table.tag = "Available"
       /\ (/\ last.op = "get"
           /\ last.fault # "none"
           /\ last'.op = "get"
           /\ last'.fault = "none"
           /\ synth.corrupt = "none"
           /\ last'.stream_number < StreamCount(synth)
           /\ StreamSizes(synth)[last'.stream_number + 1] # -1)
          => /\ last'.ok
             /\ last'.bytes = ExpectedWithin(synth, last'.stream_number, last'.limit)
      ]_vars

\* A get on a Big reader has returned a stream's content after an earlier get
\* asked for the page list's pages and left the table HeaderOnly.
C13_Witness ==
    /\ msf.variant = "big"
    /\ synth.corrupt = "none"
    /\ last.op = "get"
    /\ last.fault = "none"
    /\ last.before = "HeaderOnly"
    /\ "page_list" \in asked
    /\ last.ok
    /\ Len(last.bytes) > 0
    /\ last.bytes = Expected(synth, last.stream_number)

====
